---- MODULE Spec2Model ----
(***************************************************************************)
(* Model of src/src/app.rs: the Items component of the "Store Vec Demo".   *)
(* A blocking Resource fetches the initial items with get_items, the       *)
(* render closure of Items wraps them in a Store, and the click handlers   *)
(* of the three buttons and of every row update store.items().             *)
(*                                                                         *)
(* Rust indices are 0-based; the operators Get, Remove and position keep   *)
(* the 0-based indices of the source and translate at the sequence access. *)
(***************************************************************************)
EXTENDS Integers, Sequences, FiniteSets, TLC

\* Size of the id space standing for the 128-bit ids of uuid::Uuid::new_v4().
MaxIds == 4

Ids == 1..MaxIds

\* Option::None of `position` (an Option<usize>).
None == -1

\* The id read through a field of an item that is write-locked or disposed.
Disposed == 0

VARIABLES
    resource,       \* state of items_resource: "pending", "ready" or "failed"
    resourceValue,  \* the Vec<Item> the resource resolved to (<<>> while pending)
    loaderCalls,    \* number of invocations of get_items
    closureDirty,   \* the render closure of Items has a changed dependency
    storeInits,     \* number of Store::new calls
    items,          \* store.items(): the Vec<Item> inside the Store
    usedIds,        \* ids uuid::Uuid::new_v4() has returned so far
    rows,           \* keys of the rows mounted by <For>, in display order
    panicked,       \* a handler panicked (unwrap on None)
    last            \* the last event: op, id, clicked row, items before, observed
                    \* store states, rows mounted and unmounted by <For>, and
                    \* how far the events so far follow the reference scenario

vars == <<resource, resourceValue, loaderCalls, closureDirty, storeInits,
          items, usedIds, rows, panicked, last>>

----------------------------------------------------------------------------
\* struct Item { id: u128, value: String }
Item(id, value) == [id |-> id, value |-> value]

\* Vec indexing with the source's 0-based index.
Get(v, i) == v[i + 1]

\* Vec::push
Push(v, x) == Append(v, x)

\* Faulty variant of Remove: Vec::swap_remove, which fills the hole with the
\* last element instead of shifting.
swap_remove(v, index) ==
    IF index = Len(v) - 1
    THEN SubSeq(v, 1, Len(v) - 1)
    ELSE [SubSeq(v, 1, Len(v) - 1) EXCEPT ![index + 1] = v[Len(v)]]

\* Vec::remove(index): removes the element at 0-based index, shifting the rest left.
Remove(v, index) == SubSeq(v, 1, index) \o SubSeq(v, index + 2, Len(v))

\* items.iter().position(|item| item.id == id): first 0-based index, or None.
position(v, id) ==
    LET hits == {i \in 0..(Len(v) - 1) : Get(v, i).id = id}
    IN  IF hits = {} THEN None
        ELSE CHOOSE i \in hits : \A j \in hits : i <= j

\* Faulty variant of new_v4: an id source that may repeat itself.
new_v4_any(used) == Ids

\* The ids uuid::Uuid::new_v4() can return: a 122-bit random value, taken as
\* one never returned before.
new_v4(used) == Ids \ used

Keys(v) == [i \in 1..Len(v) |-> v[i].id]

IdSet(v) == {v[i].id : i \in 1..Len(v)}

NoEvent ==
    [op |-> "None", id |-> 0, row |-> 0, before |-> <<>>, observed |-> <<>>,
     mounted |-> {}, unmounted |-> {}, scenario |-> -1]

Init ==
    /\ resource = "pending"
    /\ resourceValue = <<>>
    /\ loaderCalls = 0
    /\ closureDirty = FALSE
    /\ storeInits = 0
    /\ items = <<>>
    /\ usedIds = {}
    /\ rows = <<>>
    /\ panicked = FALSE
    /\ last = NoEvent

----------------------------------------------------------------------------
\* Faulty variant of get_items: one id generated and used for both items.
get_items_one_id(id1, id2) == <<Item(id1, "great"), Item(id1, "amasing")>>

\* get_items(): a fixed two-item list whose ids are two calls of new_v4.
get_items(id1, id2) == <<Item(id1, "great"), Item(id2, "amasing")>>

\* Faulty variant of StoreNew: the store holds the Vec in reverse order.
StoreNewReversed(v) == [i \in 1..Len(v) |-> v[Len(v) + 1 - i]]

\* Store::new(Data { items: items_resource.get().unwrap() }): the store owns the
\* cloned Vec as it is.
StoreNew(v) == v

\* Faulty variant of ItemsTracked: the render closure also reads store.items()
\* reactively, so every store update re-runs it.
ItemsTrackedStore == {"resource", "store"}

\* The reactive reads made while the render closure of Items runs: only
\* items_resource.get(). Reads of store.items() happen inside the closures
\* handed to <For> and to on:click, which run outside this closure.
ItemsTracked == {"resource"}

\* Faulty variant of For: the rows are rendered once and not reconciled when
\* the store changes, so the row of a removed item stays on the page.
ForStale(v) == IF rows = <<>> THEN Keys(v) ELSE rows

\* <For each=store.items() key=|i| i.id().get()>: one row per key, in order.
For(v) == Keys(v)

\* Faulty variant of ForDiff: a list rendered without keys, which tears down
\* every row and builds all of them again on each change.
ForRebuild(old, v) ==
    [mounted |-> IdSet(v), unmounted |-> {old[i] : i \in 1..Len(old)}]

\* The reconciliation of <For> by key: rows are built for the keys that were
\* not rendered and dropped for the keys that are gone; a row whose key stays
\* is kept as it is.
ForDiff(old, v) ==
    LET oldKeys == {old[i] : i \in 1..Len(old)}
        newKeys == {For(v)[i] : i \in 1..Len(For(v))}
    IN  [mounted |-> newKeys \ oldKeys, unmounted |-> oldKeys \ newKeys]

\* The reference scenario of the specification: from [1 "great", 2 "amasing"],
\* Add (id 3), Mutate n-1, Delete of row 1, Delete 0. ScenarioStep follows the
\* events only: k steps of the scenario have just been made, or -1.
Scenario0 == <<Item(1, "great"), Item(2, "amasing")>>

ScenarioStep(k, op, id) ==
    IF k = 0 /\ op = "Add" /\ id = 3 THEN 1
    ELSE IF k = 1 /\ op = "MutateSecondToLast" THEN 2
    ELSE IF k = 2 /\ op = "DeleteById" /\ id = 1 THEN 3
    ELSE IF k = 3 /\ op = "DeleteFirst" THEN 4
    ELSE -1

\* Faulty variant of update: a write that notifies only when the closure
\* changed the Vec.
update_if_changed(old, new) == IF old = new THEN <<>> ELSE <<new>>

\* The store states subscribers are notified of by one store.items().update(f):
\* the write guard is dropped once, after f has run to its end.
update(old, new) == <<new>>

\* A closure result: the Vec it leaves behind, and whether it panicked.
Ok(v) == [panic |-> FALSE, items |-> v]
Panic(v) == [panic |-> TRUE, items |-> v]

\* Faulty variant of add_closure: the new item is inserted at the front.
add_closure_front(v, id) == <<Item(id, "Value")>> \o v

\* Add: |items| items.push(Item { id: new_v4().as_u128(), value: "Value" })
add_closure(v, id) == Push(v, Item(id, "Value"))

\* Faulty variant of mutate_closure: index len - 1 instead of len - 2.
mutate_closure_last(v) ==
    LET len == Len(v)
    IN  IF len >= 2
        THEN [v EXCEPT ![(len - 1) + 1].value = "Mutated"]
        ELSE v

\* Mutate n-1: if len >= 2 { items.get_mut(len - 2).unwrap().value = "Mutated" }
mutate_closure(v) ==
    LET len == Len(v)
    IN  IF len >= 2
        THEN [v EXCEPT ![(len - 2) + 1].value = "Mutated"]
        ELSE v

\* Faulty variant of delete0_closure: the guard len > 1, which never deletes
\* the only item.
delete0_closure_gt1(v) == IF Len(v) > 1 THEN Remove(v, 0) ELSE v

\* Faulty variant of delete0_closure: Vec::pop, which removes the last item.
delete0_closure_pop(v) == IF Len(v) > 0 THEN SubSeq(v, 1, Len(v) - 1) ELSE v

\* Delete 0: if items.len() > 0 { items.remove(0); }
delete0_closure(v) == IF Len(v) > 0 THEN Remove(v, 0) ELSE v

\* Faulty variant of on_delete_closure: if let Some(index) = position(..), which
\* ignores an id that is not found.
on_delete_closure_silent(v, id) ==
    LET index == position(v, id)
    IN  IF index = None THEN Ok(v) ELSE Ok(Remove(v, index))

\* on_delete: let index = position(..).unwrap(); items.remove(index);
\* unwrap on None panics before remove is reached.
on_delete_closure(v, id) ==
    LET index == position(v, id)
    IN  IF index = None THEN Panic(v) ELSE Ok(Remove(v, index))

\* item.id().get_untracked() on the keyed field of a row: the id of the item
\* the key currently resolves to.
item_id_get(v, key) ==
    LET index == position(v, key)
    IN  IF index = None THEN Disposed ELSE Get(v, index).id

----------------------------------------------------------------------------
\* One click handler run to its end: the closure's result becomes the store's
\* content, the subscribers are notified, and <For> reconciles its rows before
\* the next event is delivered. A panic aborts the handler: nothing is notified.
Handler(op, id, row, result, observed) ==
    /\ items' = result.items
    /\ panicked' = result.panic
    /\ last' = [op |-> op, id |-> id, row |-> row, before |-> items,
                observed |-> IF result.panic THEN <<>> ELSE observed,
                mounted |-> IF result.panic THEN {}
                            ELSE ForDiff(rows, result.items).mounted,
                unmounted |-> IF result.panic THEN {}
                              ELSE ForDiff(rows, result.items).unmounted,
                scenario |-> IF result.panic THEN -1
                             ELSE ScenarioStep(last.scenario, op, id)]
    /\ rows' = IF result.panic THEN rows ELSE For(result.items)
    /\ closureDirty' = (closureDirty \/ (~result.panic /\ "store" \in ItemsTracked))
    /\ UNCHANGED <<resource, resourceValue, loaderCalls, storeInits>>

\* The Result<Vec<Item>, ServerFnError> of a call of the server function.
FetchOk(v) == [ok |-> TRUE, value |-> v]
FetchErr == [ok |-> FALSE, value |-> <<>>]

\* Faulty variant of fetcher: unwrap_or_default, which turns a failed fetch
\* into an empty list.
fetcher_default(r) == Ok(r.value)

\* The fetcher of items_resource: get_items().await.unwrap(), which panics on
\* Err and yields the Vec on Ok.
fetcher(r) == IF r.ok THEN Ok(r.value) ELSE Panic(<<>>)

\* The view is mounted and no handler has aborted the program.
Mounted == storeInits > 0 /\ ~panicked

\* Resource::new_blocking(|| (), |_| async { get_items().await.unwrap() }): the
\* source || () never changes, so the fetcher runs for the initial value only.
LoaderResolve ==
    /\ resource = "pending"
    /\ ~panicked
    /\ \E id1 \in new_v4(usedIds) :
         \E id2 \in new_v4(usedIds \cup {id1}) :
            /\ resourceValue' = fetcher(FetchOk(get_items(id1, id2))).items
            /\ usedIds' = usedIds \cup {id1, id2}
    /\ resource' = "ready"
    /\ loaderCalls' = loaderCalls + 1
    /\ closureDirty' = ("resource" \in ItemsTracked)
    /\ UNCHANGED <<storeInits, items, rows, panicked, last>>

\* The call of the server function returns Err(ServerFnError): the unwrap in
\* the fetcher panics and the resource never holds a value.
LoaderFail ==
    /\ resource = "pending"
    /\ ~panicked
    /\ LET out == fetcher(FetchErr)
       IN  /\ panicked' = out.panic
           /\ resource' = IF out.panic THEN "failed" ELSE "ready"
           /\ resourceValue' = out.items
           /\ closureDirty' = (~out.panic /\ "resource" \in ItemsTracked)
    /\ loaderCalls' = loaderCalls + 1
    /\ last' = [NoEvent EXCEPT !.op = "FetchFailed"]
    /\ UNCHANGED <<storeInits, items, usedIds, rows>>

\* The render closure of Items: runs when a dependency it tracks has changed.
ItemsRender ==
    /\ closureDirty
    /\ resource = "ready"
    /\ ~panicked
    /\ items' = StoreNew(resourceValue)
    /\ storeInits' = storeInits + 1
    /\ rows' = For(items')
    /\ closureDirty' = FALSE
    /\ last' = [op |-> "Initialize", id |-> 0, row |-> 0, before |-> items,
                observed |-> <<items'>>,
                mounted |-> ForDiff(rows, items').mounted,
                unmounted |-> ForDiff(rows, items').unmounted,
                scenario |-> IF items' = Scenario0 THEN 0 ELSE -1]
    /\ UNCHANGED <<resource, resourceValue, loaderCalls, usedIds, panicked>>

\* Faulty variant of AddClick: the item is pushed with an empty value in one
\* update and given its value in a second one.
AddClickTwoUpdates ==
    /\ Mounted
    /\ \E id \in new_v4(usedIds) :
         LET mid == Push(items, Item(id, ""))
             new == [mid EXCEPT ![Len(mid)].value = "Value"]
         IN  /\ Handler("Add", id, 0, Ok(new), update(items, mid) \o update(mid, new))
             /\ usedIds' = usedIds \cup {id}

\* on:click of the Add button.
AddClick ==
    /\ Mounted
    /\ \E id \in new_v4(usedIds) :
         LET new == add_closure(items, id)
         IN  /\ Handler("Add", id, 0, Ok(new), update(items, new))
             /\ usedIds' = usedIds \cup {id}

\* on:click of the Mutate n-1 button.
MutateClick ==
    /\ Mounted
    /\ LET new == mutate_closure(items)
       IN  Handler("MutateSecondToLast", 0, 0, Ok(new), update(items, new))
    /\ UNCHANGED usedIds

\* on:click of the Delete 0 button.
DeleteFirstClick ==
    /\ Mounted
    /\ LET new == delete0_closure(items)
       IN  Handler("DeleteFirst", 0, 0, Ok(new), update(items, new))
    /\ UNCHANGED usedIds

\* on_delete(id): the callback handed to every row.
on_delete(id, row) ==
    LET result == on_delete_closure(items, id)
    IN  /\ Handler("DeleteById", id, row, result, update(items, result.items))
        /\ UNCHANGED usedIds

\* Faulty variant of ItemDeleteClick (pitfall 1 of the comment in Items): the
\* id is read inside the update closure, while the Vec is write-locked, and the
\* read yields no item id.
ItemDeleteClickLazy(r) ==
    /\ Mounted
    /\ on_delete(Disposed, rows[r])

\* on:click of the Delete button of row r: the id is read into a plain u128
\* first, then on_delete is called with it.
ItemDeleteClick(r) ==
    /\ Mounted
    /\ LET id == item_id_get(items, rows[r])
       IN  on_delete(id, rows[r])

\* on_delete called with an arbitrary u128, as a caller other than a mounted
\* row would.
OnDeleteCall(id) ==
    /\ Mounted
    /\ on_delete(id, 0)

Next ==
    \/ LoaderResolve
    \/ LoaderFail
    \/ ItemsRender
    \/ AddClick
    \/ MutateClick
    \/ DeleteFirstClick
    \/ \E r \in 1..Len(rows) : ItemDeleteClick(r)

Spec == Init /\ [][Next]_vars

NextApi ==
    \/ LoaderResolve
    \/ LoaderFail
    \/ ItemsRender
    \/ AddClick
    \/ MutateClick
    \/ DeleteFirstClick
    \/ \E r \in 1..Len(rows) : ItemDeleteClick(r)
    \/ \E id \in Ids : OnDeleteCall(id)

SpecApi == Init /\ [][NextApi]_vars

\* The route of App is requested again (a reload of the page): the components
\* are built anew, so Items starts over with a pending resource and no store.
\* Nothing of the list is kept; the ids already generated stay generated.
Reload ==
    /\ resource # "pending"
    /\ resource' = "pending"
    /\ resourceValue' = <<>>
    /\ loaderCalls' = 0
    /\ closureDirty' = FALSE
    /\ storeInits' = 0
    /\ items' = <<>>
    /\ rows' = <<>>
    /\ panicked' = FALSE
    /\ last' = NoEvent
    /\ UNCHANGED usedIds

NextReload ==
    \/ LoaderResolve
    \/ LoaderFail
    \/ ItemsRender
    \/ AddClick
    \/ MutateClick
    \/ DeleteFirstClick
    \/ \E r \in 1..Len(rows) : ItemDeleteClick(r)
    \/ Reload

\* The program over several page views, each with its own call of get_items.
SpecReload == Init /\ [][NextReload]_vars

----------------------------------------------------------------------------
\* Properties of the list operations. `last` records the event that produced
\* the current state: last.before is the Vec the handler started from.

UserOps == {"Add", "DeleteById", "DeleteFirst", "MutateSecondToLast"}

\* C1: in every state reachable by Add, DeleteById, DeleteFirst and
\* MutateSecondToLast from the initialized store, no two items of the
\* collection have the same id.
C1_UniqueIds ==
    \A i, j \in 1..Len(items) : i # j => items[i].id # items[j].id

\* A state with three items left after a row of a four-item list was deleted.
C1_Witness ==
    /\ last.op = "DeleteById"
    /\ Len(last.before) = 4
    /\ Len(items) = 3

\* C2: Add never fails and yields the previous sequence unchanged with one
\* new item at the end, so the length grows by 1; the new item's value is
\* "Value" and its id is the id of no item that was present.
C2_AddAppends ==
    last.op = "Add" =>
        /\ ~panicked
        /\ Len(items) = Len(last.before) + 1
        /\ \A i \in 1..Len(last.before) : items[i] = last.before[i]
        /\ items[Len(items)].value = "Value"
        /\ items[Len(items)].id = last.id
        /\ \A i \in 1..Len(last.before) : last.before[i].id # last.id

\* Add on a list of at least two items, one of them mutated.
C2_Witness ==
    /\ last.op = "Add"
    /\ Len(last.before) >= 2
    /\ \E i \in 1..Len(last.before) : last.before[i].value = "Mutated"
    /\ Len(items) = Len(last.before) + 1

\* C3: DeleteById with an id that is present removes exactly the item with
\* that id: the length drops by 1, no remaining item has the id, and all
\* other items keep their ids, values and relative order.
C3_DeleteByIdRemovesIt ==
    (last.op = "DeleteById" /\ last.id \in IdSet(last.before)) =>
        LET Keep(x) == x.id # last.id
        IN  /\ ~panicked
            /\ Len(items) = Len(last.before) - 1
            /\ last.id \notin IdSet(items)
            /\ items = SelectSeq(last.before, Keep)

\* The first of at least three items was deleted by its id.
C3_Witness ==
    /\ last.op = "DeleteById"
    /\ Len(last.before) >= 3
    /\ last.id = last.before[1].id
    /\ Len(items) = Len(last.before) - 1

\* C4: DeleteById with an id that is not in the collection aborts (a panic)
\* instead of silently doing nothing, and leaves the collection as it was.
C4_DeleteByIdAbsentPanics ==
    (last.op = "DeleteById" /\ last.id \notin IdSet(last.before)) =>
        /\ panicked
        /\ items = last.before
        /\ last.observed = <<>>

\* on_delete was called on a non-empty list with an id that is not in it.
C4_Witness ==
    /\ last.op = "DeleteById"
    /\ last.id \in Ids
    /\ Len(last.before) >= 2
    /\ last.id \notin IdSet(last.before)
    /\ panicked

\* C5: DeleteFirst on a non-empty collection removes exactly the item at
\* position 0 and leaves the others unchanged and in order; on an empty
\* collection it leaves the collection empty; it never panics.
C5_DeleteFirst ==
    last.op = "DeleteFirst" =>
        /\ ~panicked
        /\ (last.before = <<>> => items = <<>>)
        /\ (last.before # <<>> =>
              /\ Len(items) = Len(last.before) - 1
              /\ \A i \in 1..Len(items) : items[i] = last.before[i + 1])

\* Delete 0 was clicked on a list of at least two items.
C5_Witness ==
    /\ last.op = "DeleteFirst"
    /\ Len(last.before) >= 2
    /\ Len(items) = Len(last.before) - 1

\* C6: MutateSecondToLast on fewer than 2 items leaves every item unchanged;
\* on 2 or more it sets the value of the item at index length-2 to "Mutated"
\* and changes no other value, no id, not the length and not the order.
C6_MutateSecondToLast ==
    last.op = "MutateSecondToLast" =>
        LET len == Len(last.before)
        IN  /\ ~panicked
            /\ Len(items) = len
            /\ \A i \in 1..len : items[i].id = last.before[i].id
            /\ (len < 2 => items = last.before)
            /\ (len >= 2 =>
                  /\ Get(items, len - 2).value = "Mutated"
                  /\ \A i \in 0..(len - 1) :
                        i # len - 2 => Get(items, i) = Get(last.before, i))

\* Mutate n-1 was clicked on at least three items whose second to last was
\* not yet mutated.
C6_Witness ==
    /\ last.op = "MutateSecondToLast"
    /\ Len(last.before) >= 3
    /\ Get(last.before, Len(last.before) - 2).value # "Mutated"
    /\ Get(items, Len(items) - 2).value = "Mutated"

\* The operations of claim C7 that change the sequence.
ChangesSequence ==
    \/ last.op = "Add"
    \/ last.op = "DeleteById" /\ last.id \in IdSet(last.before)
    \/ last.op = "DeleteFirst" /\ last.before # <<>>
    \/ last.op = "MutateSecondToLast" /\ Len(last.before) >= 2

\* C7: every operation that changes the sequence notifies the rendering layer
\* exactly once, and what the rendering layer observes is the collection after
\* the whole operation, never a state between before and after.
C7_OneCoherentUpdate ==
    ChangesSequence =>
        /\ Len(last.observed) = 1
        /\ last.observed[1] = items
        /\ rows = Keys(items)

\* A row in the middle of the list was deleted and the update was observed.
C7_Witness ==
    /\ last.op = "DeleteById"
    /\ Len(last.before) >= 3
    /\ last.id = Get(last.before, 1).id
    /\ last.observed = <<items>>
    /\ items # last.before

\* C8: a row's delete action reads the row's id before the update starts and
\* the lookup inside the update uses that value, so the item removed is the one
\* whose row was clicked: the id handed to on_delete is the row's key, the
\* update does not panic, and exactly that id leaves the collection.
C8_ClickedRowIsRemoved ==
    (last.op = "DeleteById" /\ last.row # 0) =>
        /\ last.id = last.row
        /\ last.row \in IdSet(last.before)
        /\ ~panicked
        /\ IdSet(items) = IdSet(last.before) \ {last.row}
        /\ Len(items) = Len(last.before) - 1

\* The Delete button of the last of at least three rows was clicked.
C8_Witness ==
    /\ last.op = "DeleteById"
    /\ Len(last.before) >= 3
    /\ last.row = Get(last.before, Len(last.before) - 1).id
    /\ last.row \notin IdSet(items)

\* C9: right after the store is initialized from L, with no further operation,
\* its contents are exactly L: same length, same items in the same positions,
\* and one rendered row per item in that order.
C9_InitializeRoundTrip ==
    last.op = "Initialize" =>
        /\ Len(items) = Len(resourceValue)
        /\ \A i \in 1..Len(resourceValue) : items[i] = resourceValue[i]
        /\ Len(rows) = Len(resourceValue)
        /\ \A i \in 1..Len(resourceValue) : rows[i] = resourceValue[i].id

\* The store has just been initialized from the two items of the loader.
C9_Witness ==
    /\ last.op = "Initialize"
    /\ Len(resourceValue) = 2
    /\ resourceValue[1].value = "great"
    /\ resourceValue[2].value = "amasing"
    /\ Len(items) = 2

\* C10: within one page view get_items is invoked at most once and the store
\* is created at most once, as the first event after the loader resolves; no
\* user operation re-runs the loader or the render closure, so the store is
\* never replaced by loader output.
C10_LoadAndInitOnce ==
    /\ loaderCalls <= 1
    /\ storeInits <= 1
    /\ storeInits <= loaderCalls
    /\ (resource # "pending") = (loaderCalls = 1)
    /\ (resource = "ready" /\ storeInits = 0) => (closureDirty /\ last.op = "None")
    /\ storeInits = 1 => resource = "ready"
    /\ storeInits = 1 => ~closureDirty
    /\ last.op \in UserOps => storeInits = 1

\* After initialization the list was changed by user operations and kept.
C10_Witness ==
    /\ storeInits = 1
    /\ loaderCalls = 1
    /\ last.op = "Add"
    /\ Len(items) >= 3
    /\ items # resourceValue

\* C11: if the fetch of the data source fails, the store is never initialized
\* and the list view never renders: in no reachable state has the fetch failed
\* while a store exists, a row is shown, the render closure is due to run, or
\* an Add, Delete or Mutate control can be clicked.
C11_FailedFetchRendersNothing ==
    (resource = "failed" \/ last.op = "FetchFailed") =>
        /\ panicked
        /\ resource = "failed"
        /\ storeInits = 0
        /\ items = <<>>
        /\ rows = <<>>
        /\ ~closureDirty
        /\ ~Mounted
        /\ ~ENABLED ItemsRender
        /\ ~ENABLED AddClick

\* The one call of get_items failed.
C11_Witness ==
    /\ resource = "failed"
    /\ loaderCalls = 1
    /\ last.op = "FetchFailed"
    /\ panicked

\* C12: from [1 "great", 2 "amasing"], the events Add, MutateSecondToLast,
\* DeleteById(1), DeleteFirst pass through these states: after Add three
\* items, the last with value "Value"; after MutateSecondToLast the item at
\* index 1 (id 2) is "Mutated"; after DeleteById(1) the list is
\* [2 "Mutated", 3 "Value"]; after DeleteFirst it is [3 "Value"].
C12_Scenario ==
    /\ last.scenario = 1 =>
          /\ Len(items) = 3
          /\ Get(items, 2).value = "Value"
    /\ last.scenario = 2 =>
          /\ Len(items) = 3
          /\ Get(items, 1) = [id |-> 2, value |-> "Mutated"]
          /\ Get(items, 0).value = "great"
          /\ Get(items, 2).value = "Value"
    /\ last.scenario = 3 =>
          items = <<[id |-> 2, value |-> "Mutated"], [id |-> 3, value |-> "Value"]>>
    /\ last.scenario = 4 =>
          items = <<[id |-> 3, value |-> "Value"]>>

\* The four events of the scenario have been made, in order, from its start.
C12_Witness ==
    /\ last.scenario = 4
    /\ last.op = "DeleteFirst"
    /\ Len(last.before) = 2
    /\ Len(items) = 1

\* The sequence a with its element at position i (1-based) left out.
Without(a, i) == SubSeq(a, 1, i - 1) \o SubSeq(a, i + 1, Len(a))

\* C13: no operation changes the id of an existing item or reorders items:
\* across every step on the initialized store the sequence of ids stays as it
\* is, or gets one never used id appended at its end (only by Add), or loses
\* exactly one id (only by DeleteById or DeleteFirst).
C13_IdsStable ==
    [][storeInits = 1 =>
         LET a == Keys(items)
             b == Keys(items')
         IN  /\ \/ b = a
                \/ /\ last'.op = "Add"
                   /\ \E id \in Ids \ usedIds : b = Append(a, id)
                \/ /\ last'.op \in {"DeleteById", "DeleteFirst"}
                   /\ \E i \in 1..Len(a) : b = Without(a, i)
             /\ last'.op = "Add" => b # a
             /\ last'.op = "MutateSecondToLast" => b = a]_vars

\* The third of four rows was deleted and the other three ids kept their order.
C13_Witness ==
    /\ last.op = "DeleteById"
    /\ Len(last.before) = 4
    /\ last.id = Get(last.before, 2).id
    /\ Keys(items) = <<last.before[1].id, last.before[2].id, last.before[4].id>>

\* C14: every successful call of the data source returns exactly two items,
\* "great" then "amasing", with two distinct ids generated by this call; the
\* ids a call returns were returned by no earlier call, in this page view or
\* a previous one (ids once generated stay known as used).
C14_GetItemsFreshPair ==
    [][/\ usedIds \subseteq usedIds'
       /\ (resource = "pending" /\ resource' = "ready") =>
             /\ Len(resourceValue') = 2
             /\ resourceValue'[1].value = "great"
             /\ resourceValue'[2].value = "amasing"
             /\ resourceValue'[1].id # resourceValue'[2].id
             /\ IdSet(resourceValue') \cap usedIds = {}
             /\ IdSet(resourceValue') \subseteq usedIds']_vars

\* A second page view whose call of get_items has returned: its two ids are
\* used, and so are the two ids of an earlier call.
C14_Witness ==
    /\ resource = "ready"
    /\ last.op = "None"
    /\ Len(resourceValue) = 2
    /\ Cardinality(usedIds \ IdSet(resourceValue)) >= 2

\* C15: with rows keyed by item id, an operation builds rows only for the ids
\* it added and tears down rows only for the ids it removed; a row whose id is
\* in the collection before and after (also the row Mutate n-1 wrote to) is
\* neither torn down nor built again; and the rendered row keys are always
\* the ids of the collection, in order.
C15_KeyedRows ==
    /\ rows = Keys(items)
    /\ (last.op \in UserOps \cup {"Initialize"} /\ ~panicked) =>
          LET old == IdSet(last.before)
              new == IdSet(items)
          IN  /\ last.mounted = new \ old
              /\ last.unmounted = old \ new
              /\ (old \cap new) \cap (last.mounted \cup last.unmounted) = {}
    /\ last.op = "MutateSecondToLast" =>
          (last.mounted = {} /\ last.unmounted = {})
    /\ last.op = "Add" =>
          (last.mounted = {last.id} /\ last.unmounted = {})
    /\ (last.op = "DeleteById" /\ ~panicked) =>
          (last.mounted = {} /\ last.unmounted = {last.id})
    /\ (last.op = "DeleteFirst" /\ last.before # <<>>) =>
          (last.mounted = {} /\ last.unmounted = {Get(last.before, 0).id})

\* One of at least three rows was deleted: only its row was torn down, and
\* the rows of the remaining items, one of them mutated, stayed.
C15_Witness ==
    /\ last.op = "DeleteById"
    /\ ~panicked
    /\ Len(items) >= 2
    /\ \E i \in 1..Len(items) : items[i].value = "Mutated"
    /\ last.unmounted = {last.id}
    /\ last.mounted = {}

\* C16: with Add, Mutate n-1, Delete 0 and Delete clicks on rendered rows as
\* the only events, a row's Delete click always finds its id in the
\* collection: the unwrap in on_delete never panics, whatever was deleted
\* before, and every rendered row resolves to an item of the collection.
C16_RowDeleteNeverPanics ==
    /\ last.op = "DeleteById" =>
          /\ ~panicked
          /\ last.id \in IdSet(last.before)
          /\ position(last.before, last.id) # None
    /\ panicked => last.op = "FetchFailed"
    /\ \A r \in 1..Len(rows) :
          /\ item_id_get(items, rows[r]) # Disposed
          /\ ~on_delete_closure(items, item_id_get(items, rows[r])).panic

\* A row was deleted by its button after other items had already been
\* deleted from the list.
C16_Witness ==
    /\ last.op = "DeleteById"
    /\ last.row # 0
    /\ ~panicked
    /\ usedIds \ IdSet(last.before) # {}
    /\ Len(items) >= 1

\* C17: on every reachable non-empty collection, DeleteFirst and DeleteById
\* with the id of the item at position 0 give the same collection; position
\* finds that id at index 0, the only index holding it.
C17_DeleteFirstIsDeleteByFirstId ==
    /\ items # <<>> =>
          LET id == Get(items, 0).id
          IN  /\ on_delete_closure(items, id) = Ok(delete0_closure(items))
              /\ position(items, id) = 0
              /\ Cardinality({i \in 1..Len(items) : items[i].id = id}) = 1
    /\ (last.op = "DeleteFirst" /\ last.before # <<>>) =>
          items = on_delete_closure(last.before, Get(last.before, 0).id).items
    /\ (last.op = "DeleteById" /\ ~panicked /\ last.id = Get(last.before, 0).id) =>
          items = delete0_closure(last.before)

\* The first row of a list, down to its only item, was deleted by its button.
C17_Witness ==
    /\ last.op = "DeleteById"
    /\ last.row # 0
    /\ last.before # <<>>
    /\ last.id = Get(last.before, 0).id
    /\ items = Remove(last.before, 0)
    /\ Len(items) <= 1

\* C18: the operations that change nothing still go through one store update
\* and notify the rendering layer once: Delete 0 on an empty collection,
\* Mutate n-1 on fewer than 2 items, and Mutate n-1 on an item whose value is
\* "Mutated" already; the collection is as it was before.
C18_NoOpStillNotifies ==
    LET len == Len(last.before)
        noop == \/ last.op = "DeleteFirst" /\ len = 0
                \/ last.op = "MutateSecondToLast" /\ len < 2
                \/ /\ last.op = "MutateSecondToLast"
                   /\ len >= 2
                   /\ Get(last.before, len - 2).value = "Mutated"
    IN  noop =>
          /\ items = last.before
          /\ Len(last.observed) = 1
          /\ last.observed[1] = last.before
          /\ ~panicked

\* Delete 0 was clicked on the empty list and one notification went out.
C18_Witness ==
    /\ last.op = "DeleteFirst"
    /\ last.before = <<>>
    /\ items = <<>>
    /\ Len(last.observed) = 1

\* Mutate n-1 was clicked on an item that was "Mutated" already.
C18_WitnessMutatedAgain ==
    /\ last.op = "MutateSecondToLast"
    /\ Len(last.before) >= 2
    /\ items = last.before
    /\ Len(last.observed) = 1

====
